---- MODULE Spec2Model ----
(***************************************************************************)
(* A model of the sma16vm core (src/src/lib.rs): a 4096-word memory, one   *)
(* accumulator, a growable stack, a program counter and a 4-bit-opcode     *)
(* instruction set with two memory-mapped output ports and a fault         *)
(* protocol.  Every operator below is translated from the function of the  *)
(* same name in lib.rs; the struct Sma16 is the record `Core`, extended    *)
(* with the bytes written to stdout (`out`), with the build's overflow     *)
(* checking (`overflow_checks`) and with whether a Rust panic has unwound  *)
(* out of the core (`panicked`).                                           *)
(***************************************************************************)
EXTENDS Integers, Sequences, FiniteSets, TLC

(***************************************************************************)
(* Program constants.                                                      *)
(***************************************************************************)
MEM_MAX == 4096
WORD_MOD == 65536
U16_BITS == 16
SMALL_MOD == 64

INTERRUPT_REASON_REGISTER == 8
INTERRUPT_RETURN_REGISTER == 9
STACK_SIZE_REGISTER == 13
RESET_VECTOR == 0
FAULT_VECTOR == 1
ASCII_OUT == 10
SMALL_OUT == 11
STACK_SIZE_DEFAULT == 65535
UNKNOWN_REASON == 4080

(***************************************************************************)
(* Bounds of the exploration.                                              *)
(***************************************************************************)
MaxSteps == 10
MaxCalls == 1

(***************************************************************************)
(* Bit operations on u16, computed bit by bit.                             *)
(***************************************************************************)
RECURSIVE BitAnd(_, _)
BitAnd(a, b) ==
    IF a = 0 \/ b = 0 THEN 0
    ELSE (IF a % 2 = 1 /\ b % 2 = 1 THEN 1 ELSE 0) + 2 * BitAnd(a \div 2, b \div 2)

RECURSIVE BitOr(_, _)
BitOr(a, b) ==
    IF a = 0 THEN b
    ELSE IF b = 0 THEN a
    ELSE (IF a % 2 = 1 \/ b % 2 = 1 THEN 1 ELSE 0) + 2 * BitOr(a \div 2, b \div 2)

RECURSIVE BitXor(_, _)
BitXor(a, b) ==
    IF a = 0 THEN b
    ELSE IF b = 0 THEN a
    ELSE (IF a % 2 # b % 2 THEN 1 ELSE 0) + 2 * BitXor(a \div 2, b \div 2)

RECURSIVE Pow2(_)
Pow2(n) == IF n = 0 THEN 1 ELSE 2 * Pow2(n - 1)

(***************************************************************************)
(* Word codec: impl Word for u16.                                          *)
(***************************************************************************)
Inst(w) == BitAnd(w \div 4096, 15)

Data(w) == BitAnd(w, 4095)

(***************************************************************************)
(* putc and small_to_chars: the bytes a port write sends to stdout.        *)
(***************************************************************************)
convert(small) ==
    IF small <= 25 THEN <<65 + small>>
    ELSE IF small <= 51 THEN <<97 + (small - 26)>>
    ELSE IF small <= 61 THEN <<48 + (small - 52)>>
    ELSE IF small = 62 THEN <<32>>
    ELSE <<>>

\* A variant that emits the high code's character first.
small_to_chars_high_first(small) ==
    LET latter == BitAnd(small \div SMALL_MOD, 63)
        former == BitAnd(small, 63)
    IN  convert(latter) \o convert(former)

small_to_chars(small) ==
    LET latter == BitAnd(small \div SMALL_MOD, 63)
        former == BitAnd(small, 63)
    IN  convert(former) \o convert(latter)

(***************************************************************************)
(* Instruction decoder: impl From<u16> for Instruction.                    *)
(***************************************************************************)
Decode(n) ==
    CASE n = 0 -> [kind |-> "Halt", n |-> n]
      [] n = 2 -> [kind |-> "Jump", n |-> n]
      [] n = 3 -> [kind |-> "JumpZ", n |-> n]
      [] n = 4 -> [kind |-> "Load", n |-> n]
      [] n = 5 -> [kind |-> "Store", n |-> n]
      [] n = 6 -> [kind |-> "LShft", n |-> n]
      [] n = 7 -> [kind |-> "RShft", n |-> n]
      [] n = 8 -> [kind |-> "Xor", n |-> n]
      [] n = 9 -> [kind |-> "And", n |-> n]
      [] n = 10 -> [kind |-> "SFull", n |-> n]
      [] n = 11 -> [kind |-> "Add", n |-> n]
      [] n = 13 -> [kind |-> "Pop", n |-> n]
      [] n = 14 -> [kind |-> "Push", n |-> n]
      [] n = 15 -> [kind |-> "NoOp", n |-> n]
      [] OTHER -> [kind |-> "Unknown", n |-> n]

(***************************************************************************)
(* Memory([u16; MEM_MAX]) is kept as the function from the addresses of    *)
(* its nonzero words to those words: a word outside the domain is 0, and   *)
(* two memories are equal exactly when all MEM_MAX words agree.            *)
(* Index<u16> and IndexMut<u16> mask the address to 12 bits.               *)
(***************************************************************************)
MemIndex(address) == BitAnd(address, 4095)

BlankMemory == [a \in {} |-> 0]

Word(mem, address) ==
    IF MemIndex(address) \in DOMAIN mem THEN mem[MemIndex(address)] ELSE 0

SetWord(mem, address, value) ==
    LET i == MemIndex(address)
    IN  IF value = 0
        THEN [a \in DOMAIN mem \ {i} |-> mem[a]]
        ELSE [a \in DOMAIN mem \cup {i} |-> IF a = i THEN value ELSE mem[a]]

(***************************************************************************)
(* Sma16::with_memory.  `checks` is the build's overflow checking.         *)
(***************************************************************************)
with_memory(mem, checks, bytes) ==
    [memory |-> SetWord(mem, STACK_SIZE_REGISTER, STACK_SIZE_DEFAULT),
     stack |-> <<>>,
     program_counter |-> RESET_VECTOR,
     instruction_register |-> 0,
     accumulator |-> 0,
     flag_halt |-> FALSE,
     flag_zero |-> FALSE,
     out |-> bytes,
     overflow_checks |-> checks,
     panicked |-> FALSE]

with_blank_memory(checks, bytes) == with_memory(BlankMemory, checks, bytes)

(***************************************************************************)
(* u16 addition: a debug build panics on overflow, a release build wraps.  *)
(***************************************************************************)
AddOverflows(a, b) == a + b >= WORD_MOD

WrappingAdd(a, b) == (a + b) % WORD_MOD

(***************************************************************************)
(* Sma16::load_memory: the first n words of mem are stored one by one; the *)
(* address computation start + i may overflow.                             *)
(***************************************************************************)
\* A variant that stores each word through the port-dispatching write.
RECURSIVE load_memory_through_ports(_, _, _, _)
load_memory_through_ports(c, start, mem, n) ==
    IF n = 0 THEN c
    ELSE LET p == load_memory_through_ports(c, start, mem, n - 1)
             i == (n - 1) % WORD_MOD
             address == WrappingAdd(start, i)
         IN  IF p.panicked THEN p
             ELSE IF AddOverflows(start, i) /\ p.overflow_checks
                  THEN [p EXCEPT !.panicked = TRUE]
                  ELSE [p EXCEPT !.memory = SetWord(@, address, mem[n]),
                                 !.out = @ \o (IF address = ASCII_OUT
                                               THEN <<mem[n] % 256>>
                                               ELSE IF address = SMALL_OUT
                                               THEN small_to_chars(Data(mem[n]))
                                               ELSE <<>>)]

RECURSIVE load_memory_prefix(_, _, _, _)
load_memory_prefix(c, start, mem, n) ==
    IF n = 0 THEN c
    ELSE LET p == load_memory_prefix(c, start, mem, n - 1)
             i == (n - 1) % WORD_MOD
         IN  IF p.panicked THEN p
             ELSE IF AddOverflows(start, i) /\ p.overflow_checks
                  THEN [p EXCEPT !.panicked = TRUE]
                  ELSE [p EXCEPT !.memory = SetWord(@, WrappingAdd(start, i), mem[n])]

load_memory(c, start, mem) == load_memory_prefix(c, start, mem, Len(mem))

(***************************************************************************)
(* Sma16::reinitialize.                                                    *)
(***************************************************************************)
\* A variant that resets the registers and flags but keeps the stack.
reinitialize_keeping_stack(c) ==
    [with_memory(c.memory, c.overflow_checks, c.out) EXCEPT !.stack = c.stack]

reinitialize(c) == with_memory(c.memory, c.overflow_checks, c.out)

(***************************************************************************)
(* Sma16::fault.                                                           *)
(***************************************************************************)
\* A variant that saves the faulting address itself as the return address.
fault_saving_pc(c, reason) ==
    LET m1 == SetWord(c.memory, INTERRUPT_RETURN_REGISTER, c.program_counter)
        m2 == SetWord(m1, INTERRUPT_REASON_REGISTER, reason)
    IN  [c EXCEPT !.memory = m2, !.program_counter = FAULT_VECTOR]

fault(c, reason) ==
    IF AddOverflows(c.program_counter, 1) /\ c.overflow_checks
    THEN [c EXCEPT !.panicked = TRUE]
    ELSE LET m1 == SetWord(c.memory, INTERRUPT_RETURN_REGISTER,
                           WrappingAdd(c.program_counter, 1))
             m2 == SetWord(m1, INTERRUPT_REASON_REGISTER, reason)
         IN  [c EXCEPT !.memory = m2, !.program_counter = FAULT_VECTOR]

(***************************************************************************)
(* Sma16::read_memory, write_memory, write_memory_data.                    *)
(***************************************************************************)
read_memory(c, address) == Word(c.memory, Data(address))

port_bytes(address, value) ==
    IF address = ASCII_OUT THEN <<BitAnd(value, 255)>>
    ELSE IF address = SMALL_OUT THEN small_to_chars(Data(value))
    ELSE <<>>

write_memory(c, address, value) ==
    [c EXCEPT !.memory = SetWord(@, Data(address), value),
              !.out = @ \o port_bytes(address, value)]

\* A variant that drops the opcode nibble of the target word.
merged_word_dropping_opcode(old, value) == Data(value)

merged_word(old, value) == BitOr(BitAnd(old, 61440), Data(value))

write_memory_data(c, address, value) ==
    write_memory(c, address, merged_word(read_memory(c, address), value))

(***************************************************************************)
(* Shifts of a u16 by a u16 amount: an amount of 16 or more panics in a    *)
(* debug build and is taken modulo 16 in a release build.                  *)
(***************************************************************************)
ShiftOverflows(amount) == amount >= U16_BITS

Shl(x, amount) == (x * Pow2(amount % U16_BITS)) % WORD_MOD

Shr(x, amount) == x \div Pow2(amount % U16_BITS)

(***************************************************************************)
(* Sma16::step: the match on the decoded instruction.  Each arm yields the *)
(* core after the arm and the value of inc_pc_normally.                    *)
(***************************************************************************)
Arm(core, inc) == [core |-> core, inc |-> inc]

shift_arm(c, left) ==
    LET amount == Data(c.instruction_register) \div 2
        operand == IF BitAnd(Data(c.instruction_register), 1) = 1
                   THEN Data(c.accumulator)
                   ELSE c.accumulator
    IN  IF ShiftOverflows(amount) /\ c.overflow_checks
        THEN Arm([c EXCEPT !.panicked = TRUE], TRUE)
        ELSE Arm([c EXCEPT !.accumulator =
                      IF left THEN Shl(operand, amount) ELSE Shr(operand, amount)],
                 TRUE)

\* A variant that masks the sum to 12 bits.
add_arm_masked(c) ==
    LET sum == Data(Data(c.accumulator) + Data(c.instruction_register))
    IN  [core |-> [c EXCEPT !.accumulator = sum, !.flag_zero = (sum = 0)],
         inc |-> TRUE]

add_arm(c) ==
    LET sum == Data(c.accumulator) + Data(c.instruction_register)
    IN  Arm([c EXCEPT !.accumulator = sum, !.flag_zero = (Data(sum) = 0)], TRUE)

\* A variant that takes the oldest value instead of the newest.
pop_arm_oldest_first(c) ==
    IF Len(c.stack) = 0
    THEN [core |-> [c EXCEPT !.accumulator = 0], inc |-> TRUE]
    ELSE [core |-> [c EXCEPT !.accumulator = Head(c.stack), !.stack = Tail(c.stack)],
          inc |-> TRUE]

\* A variant of Pop that dispatches a fault when the stack is empty.
pop_arm_faulting_on_empty(c) ==
    IF Len(c.stack) = 0
    THEN [core |-> fault(c, UNKNOWN_REASON), inc |-> FALSE]
    ELSE [core |-> [c EXCEPT !.accumulator = c.stack[Len(c.stack)],
                             !.stack = SubSeq(c.stack, 1, Len(c.stack) - 1)],
          inc |-> TRUE]

pop_arm(c) ==
    IF Len(c.stack) = 0
    THEN Arm([c EXCEPT !.accumulator = 0], TRUE)
    ELSE Arm([c EXCEPT !.accumulator = c.stack[Len(c.stack)],
                       !.stack = SubSeq(c.stack, 1, Len(c.stack) - 1)], TRUE)

push_arm(c) == Arm([c EXCEPT !.stack = Append(@, c.accumulator)], TRUE)

\* A variant of Halt that suppresses the increment of the program counter.
halt_arm_without_increment(c) ==
    [core |-> [c EXCEPT !.flag_halt = TRUE], inc |-> FALSE]

halt_arm(c) == Arm([c EXCEPT !.flag_halt = TRUE], TRUE)

jump_arm(c) ==
    Arm([c EXCEPT !.program_counter = Data(c.instruction_register)], FALSE)

\* A variant of JumpZ that increments the program counter after a taken jump.
jumpz_arm_always_increments(c) ==
    [core |-> IF c.flag_zero
              THEN [c EXCEPT !.program_counter = Data(c.instruction_register)]
              ELSE c,
     inc |-> TRUE]

jumpz_arm(c) ==
    Arm(IF c.flag_zero
        THEN [c EXCEPT !.program_counter = Data(c.instruction_register)]
        ELSE c,
        ~c.flag_zero)

load_arm(c) ==
    Arm([c EXCEPT !.accumulator = read_memory(c, Data(c.instruction_register))], TRUE)

store_arm(c) ==
    Arm(write_memory_data(c, Data(c.instruction_register), Data(c.accumulator)), TRUE)

\* A variant of Xor that updates the zero flag from its result.
xor_arm_setting_zero(c) ==
    LET result == BitXor(Data(c.accumulator), Data(c.instruction_register))
    IN  [core |-> [c EXCEPT !.accumulator = result, !.flag_zero = (result = 0)],
         inc |-> TRUE]

xor_arm(c) ==
    Arm([c EXCEPT !.accumulator =
             BitXor(Data(c.accumulator), Data(c.instruction_register))], TRUE)

\* A variant of And that merges the result into the low 12 bits only.
and_arm_masked_merge(c) ==
    [core |-> [c EXCEPT !.accumulator =
                   BitOr(BitAnd(c.accumulator, 61440),
                         BitAnd(Data(c.accumulator), Data(c.instruction_register)))],
     inc |-> TRUE]

and_arm(c) ==
    Arm([c EXCEPT !.accumulator =
             BitAnd(Data(c.accumulator), Data(c.instruction_register))], TRUE)

sfull_arm(c) ==
    Arm(write_memory(c, Data(c.instruction_register), c.accumulator), TRUE)

noop_arm(c) == Arm(c, TRUE)

unknown_reason(n) == BitOr(UNKNOWN_REASON, Inst(n))

\* A variant of the Unknown arm that lets the program counter increment.
unknown_arm_incrementing(c, n) ==
    [core |-> fault(c, unknown_reason(n)), inc |-> TRUE]

unknown_arm(c, n) == Arm(fault(c, unknown_reason(n)), FALSE)

execute(c) ==
    LET d == Decode(Inst(c.instruction_register))
    IN  CASE d.kind = "Halt" -> halt_arm(c)
          [] d.kind = "Jump" -> jump_arm(c)
          [] d.kind = "JumpZ" -> jumpz_arm(c)
          [] d.kind = "Load" -> load_arm(c)
          [] d.kind = "Store" -> store_arm(c)
          [] d.kind = "LShft" -> shift_arm(c, TRUE)
          [] d.kind = "RShft" -> shift_arm(c, FALSE)
          [] d.kind = "Xor" -> xor_arm(c)
          [] d.kind = "And" -> and_arm(c)
          [] d.kind = "SFull" -> sfull_arm(c)
          [] d.kind = "Add" -> add_arm(c)
          [] d.kind = "Pop" -> pop_arm(c)
          [] d.kind = "Push" -> push_arm(c)
          [] d.kind = "NoOp" -> noop_arm(c)
          [] d.kind = "Unknown" -> unknown_arm(c, d.n)

inc_pc(c) ==
    IF AddOverflows(c.program_counter, 1) /\ c.overflow_checks
    THEN [c EXCEPT !.panicked = TRUE]
    ELSE [c EXCEPT !.program_counter = WrappingAdd(c.program_counter, 1)]

\* A variant of step that does nothing while the halt flag is set.
step_unless_halted(c) ==
    LET fetched == [c EXCEPT !.instruction_register = read_memory(c, c.program_counter)]
        arm == execute(fetched)
    IN  IF c.flag_halt THEN c
        ELSE IF arm.core.panicked THEN arm.core
        ELSE IF arm.inc THEN inc_pc(arm.core)
        ELSE arm.core

step(c) ==
    LET fetched == [c EXCEPT !.instruction_register = read_memory(c, c.program_counter)]
        arm == execute(fetched)
    IN  IF arm.core.panicked THEN arm.core
        ELSE IF arm.inc THEN inc_pc(arm.core)
        ELSE arm.core

(***************************************************************************)
(* Memory images handed to with_memory, as the words placed from address 0 *)
(* of a blank memory (ImageAt places further words at a given address).    *)
(***************************************************************************)
RECURSIVE ImageAt(_, _, _)
ImageAt(mem, start, words) ==
    IF Len(words) = 0 THEN mem
    ELSE ImageAt(SetWord(mem, start, Head(words)), start + 1, Tail(words))

\* Load 0xD; Push; Add 5; Push; Pop; Pop; Pop; Halt
ProgStack == <<16397, 57344, 45061, 57344, 53248, 53248, 53248, 0>>

\* Add 0xD74; Store 0xB; SFull 0xA; Load 0xD; Store 4; SFull 0xB; Store 0xA;
\* Load 0xA; Halt
ProgPorts == <<48500, 20491, 40970, 16397, 20484, 40971, 20490, 16394, 0>>

\* Jump 3; Halt (fault vector); Jump 4; unmapped 0x1; unmapped 0xC
ProgFault == <<8195, 0, 8196, 6844, 52719>>

\* JumpZ 5; Add 0xFFF; Add 1; JumpZ 5; Halt; Load 0xD; Add 1; Jump 0xFFF
\* and NoOp at 0xFFF
ProgJumps == <<12293, 49151, 45057, 12293, 0, 16397, 45057, 12287>>

\* Load 0xD; LShft 4 (data); RShft 4 (full); Xor 0xF0F; And 0x0FF;
\* LShft 16 (full); RShft 2047 (data); Halt
ProgShift == <<16397, 24585, 28680, 36623, 37119, 24608, 32767, 0>>

\* Load 0xD; And 0x0F0; Xor 0x0F0; SFull 0xD; Add 0; Xor 0x123; Halt
ProgLogic == <<16397, 37104, 33008, 40973, 45056, 33059, 0>>

\* unmapped 0x1 at the reset vector; unmapped 0xC at the fault vector
ProgTrap == <<6844, 52719>>

Images ==
    { ImageAt(BlankMemory, 0, ProgStack),
      ImageAt(BlankMemory, 0, ProgPorts),
      ImageAt(BlankMemory, 0, ProgFault),
      ImageAt(ImageAt(BlankMemory, 0, ProgJumps), 4095, <<61440>>),
      ImageAt(BlankMemory, 0, ProgShift),
      ImageAt(BlankMemory, 0, ProgLogic),
      ImageAt(BlankMemory, 0, ProgTrap) }

(***************************************************************************)
(* Arguments of the host's calls.                                          *)
(***************************************************************************)
\* Add 5; Push; Halt
ScenarioA == <<45061, 57344, 0>>

PokeAddresses == {10, 11, 13, 4106, 4107, 4109}

PokeValues == {65, 3968, 24538, 65535}

PeekAddresses == {10, 13, 4106, 4109}

LoadArgs ==
    { <<0, ScenarioA>>, <<9, <<1, 65, 3968, 0, 0>>>>, <<4095, <<61440, 0>>>>,
      <<65535, <<6844, 0>>>> }

FaultReasons == {0, 4081}

(***************************************************************************)
(* The state: the fields of Sma16, stdout, the build, and the host's       *)
(* position (inside run() or not).  `last` records the most recent call    *)
(* and its arguments, `run_entry` the registers at the call of the run()   *)
(* in progress or just returned; `calls` and `steps` count calls for the   *)
(* bounds.                                                                 *)
(***************************************************************************)
VARIABLES memory, stack, program_counter, instruction_register, accumulator,
          flag_halt, flag_zero, out, overflow_checks, panicked, running,
          run_entry, last, calls, steps

vars == <<memory, stack, program_counter, instruction_register, accumulator,
          flag_halt, flag_zero, out, overflow_checks, panicked, running,
          run_entry, last, calls, steps>>

Core ==
    [memory |-> memory, stack |-> stack, program_counter |-> program_counter,
     instruction_register |-> instruction_register, accumulator |-> accumulator,
     flag_halt |-> flag_halt, flag_zero |-> flag_zero, out |-> out,
     overflow_checks |-> overflow_checks, panicked |-> panicked]

Becomes(c) ==
    /\ memory' = c.memory
    /\ stack' = c.stack
    /\ program_counter' = c.program_counter
    /\ instruction_register' = c.instruction_register
    /\ accumulator' = c.accumulator
    /\ flag_halt' = c.flag_halt
    /\ flag_zero' = c.flag_zero
    /\ out' = c.out
    /\ overflow_checks' = c.overflow_checks
    /\ panicked' = c.panicked

Call(op, a, v) == [op |-> op, a |-> a, v |-> v]

Entry(pc, acc, stk) == [program_counter |-> pc, accumulator |-> acc, stack |-> stk]

NoEntry == Entry(-1, 0, <<>>)

Init ==
    /\ \E checks \in BOOLEAN :
        \E c \in {with_blank_memory(checks, <<>>)}
                    \cup {with_memory(img, checks, <<>>) : img \in Images} :
            /\ memory = c.memory
            /\ stack = c.stack
            /\ program_counter = c.program_counter
            /\ instruction_register = c.instruction_register
            /\ accumulator = c.accumulator
            /\ flag_halt = c.flag_halt
            /\ flag_zero = c.flag_zero
            /\ out = c.out
            /\ overflow_checks = c.overflow_checks
            /\ panicked = c.panicked
    /\ running = FALSE
    /\ run_entry = NoEntry
    /\ last = Call("new", 0, 0)
    /\ calls = 0
    /\ steps = 0

HostMayCall == ~running /\ ~panicked /\ calls < MaxCalls

LoadMemory ==
    /\ HostMayCall
    /\ \E arg \in LoadArgs :
        /\ Becomes(load_memory(Core, arg[1], arg[2]))
        /\ last' = Call("load_memory", arg[1], Len(arg[2]))
    /\ calls' = calls + 1
    /\ run_entry' = NoEntry
    /\ UNCHANGED <<running, steps>>

Reinitialize ==
    /\ HostMayCall
    /\ Becomes(reinitialize(Core))
    /\ last' = Call("reinitialize", 0, 0)
    /\ calls' = calls + 1
    /\ run_entry' = NoEntry
    /\ UNCHANGED <<running, steps>>

Fault ==
    /\ HostMayCall
    /\ \E reason \in FaultReasons :
        /\ Becomes(fault(Core, reason))
        /\ last' = Call("fault", reason, 0)
    /\ calls' = calls + 1
    /\ run_entry' = NoEntry
    /\ UNCHANGED <<running, steps>>

ReadMemory ==
    /\ HostMayCall
    /\ \E address \in PeekAddresses :
        last' = Call("read_memory", address, read_memory(Core, address))
    /\ calls' = calls + 1
    /\ run_entry' = NoEntry
    /\ UNCHANGED <<memory, stack, program_counter, instruction_register,
                   accumulator, flag_halt, flag_zero, out, overflow_checks,
                   panicked, running, steps>>

WriteMemory ==
    /\ HostMayCall
    /\ \E address \in PokeAddresses, value \in PokeValues :
        /\ Becomes(write_memory(Core, address, value))
        /\ last' = Call("write_memory", address, value)
    /\ calls' = calls + 1
    /\ run_entry' = NoEntry
    /\ UNCHANGED <<running, steps>>

WriteMemoryData ==
    /\ HostMayCall
    /\ \E address \in PokeAddresses, value \in PokeValues :
        /\ Becomes(write_memory_data(Core, address, value))
        /\ last' = Call("write_memory_data", address, value)
    /\ calls' = calls + 1
    /\ run_entry' = NoEntry
    /\ UNCHANGED <<running, steps>>

Step ==
    /\ ~running
    /\ ~panicked
    /\ steps < MaxSteps
    /\ Becomes(step(Core))
    /\ last' = Call("step", program_counter, 0)
    /\ steps' = steps + 1
    /\ run_entry' = NoEntry
    /\ UNCHANGED <<running, calls>>

(***************************************************************************)
(* Sma16::run: clear the halt flag, then step while it is clear.           *)
(***************************************************************************)
RunCall ==
    /\ ~running
    /\ ~panicked
    /\ flag_halt' = FALSE
    /\ running' = TRUE
    /\ run_entry' = Entry(program_counter, accumulator, stack)
    /\ last' = Call("run", program_counter, 0)
    /\ UNCHANGED <<memory, stack, program_counter, instruction_register,
                   accumulator, flag_zero, out, overflow_checks, panicked,
                   calls, steps>>

RunStep ==
    /\ running
    /\ ~panicked
    /\ ~flag_halt
    /\ steps < MaxSteps
    /\ Becomes(step(Core))
    /\ last' = Call("run_step", program_counter, 0)
    /\ steps' = steps + 1
    /\ UNCHANGED <<running, run_entry, calls>>

RunReturn ==
    /\ running
    /\ ~panicked
    /\ flag_halt
    /\ running' = FALSE
    /\ last' = Call("run_return", program_counter, 0)
    /\ UNCHANGED <<memory, stack, program_counter, instruction_register,
                   accumulator, flag_halt, flag_zero, out, overflow_checks,
                   panicked, run_entry, calls, steps>>

Next ==
    \/ LoadMemory
    \/ Reinitialize
    \/ Fault
    \/ ReadMemory
    \/ WriteMemory
    \/ WriteMemoryData
    \/ Step
    \/ RunCall
    \/ RunStep
    \/ RunReturn

Spec == Init /\ [][Next]_vars

(***************************************************************************)
(* Vocabulary of the properties: the word the next step fetches, its       *)
(* opcode nibble and operand, and the kinds of transition.                 *)
(***************************************************************************)
Fetched == Word(memory, program_counter)

OpNibble == Fetched \div 4096

Operand == Fetched % 4096

Stepped == last'.op \in {"step", "run_step"} /\ ~panicked'

Executes(n) == Stepped /\ OpNibble = n

Poked == last'.op \in {"write_memory", "write_memory_data"}

RegistersUnchanged ==
    /\ accumulator' = accumulator
    /\ stack' = stack
    /\ flag_halt' = flag_halt
    /\ flag_zero' = flag_zero

(***************************************************************************)
(* C1: reading address 4096 + k returns the word read at k, and a write    *)
(* (write_memory or write_memory_data) of v to 4096 + k has the effect of  *)
(* the same write to k: the same memory and the same bytes emitted,        *)
(* the two output ports included.                                          *)
(***************************************************************************)
C1_AddressWraparound ==
    [][/\ last'.op = "read_memory" =>
            last'.v = read_memory(Core, last'.a % MEM_MAX)
       /\ last'.op = "write_memory" =>
            /\ memory' = write_memory(Core, last'.a % MEM_MAX, last'.v).memory
            /\ out' = write_memory(Core, last'.a % MEM_MAX, last'.v).out
       /\ last'.op = "write_memory_data" =>
            /\ memory' = write_memory_data(Core, last'.a % MEM_MAX, last'.v).memory
            /\ out' = write_memory_data(Core, last'.a % MEM_MAX, last'.v).out]_vars

(***************************************************************************)
(* C2: after a step that executes a word whose opcode nibble n is 0x1 or   *)
(* 0xC, the interrupt-reason register holds 0x0FF0 | n.                    *)
(***************************************************************************)
C2_UnknownReasonCarriesNibble ==
    [][(Executes(1) \/ Executes(12)) =>
          Word(memory', INTERRUPT_REASON_REGISTER) = 4080 + OpNibble]_vars

FaultCalled == last'.op = "fault" /\ ~panicked'

FaultDispatched == FaultCalled \/ Executes(1) \/ Executes(12)

(***************************************************************************)
(* C3: a fault dispatched at program counter p (by fault(reason) or by a   *)
(* step that executes an unmapped opcode) leaves p + 1 in the interrupt-   *)
(* return register, the reason in the interrupt-reason register and the    *)
(* program counter at 1; accumulator, stack, flags, every other memory     *)
(* word and the output are unchanged.                                      *)
(***************************************************************************)
C3_FaultProtocol ==
    [][FaultDispatched =>
          /\ Word(memory', INTERRUPT_RETURN_REGISTER) = program_counter + 1
          /\ FaultCalled => Word(memory', INTERRUPT_REASON_REGISTER) = last'.a
          /\ ~FaultCalled => Word(memory', INTERRUPT_REASON_REGISTER) \div 16 = 255
          /\ program_counter' = 1
          /\ memory' = SetWord(SetWord(memory, 9, Word(memory', 9)),
                               8, Word(memory', 8))
          /\ RegistersUnchanged
          /\ out' = out]_vars

C3_Witness ==
    /\ last.op \in {"step", "run_step"}
    /\ instruction_register \div 4096 = 12
    /\ program_counter = 1
    /\ Word(memory, INTERRUPT_RETURN_REGISTER) = 5
    /\ Word(memory, INTERRUPT_REASON_REGISTER) >= 4080

(***************************************************************************)
(* C4: Store at operand address a leaves memory[a] =                       *)
(* (old memory[a] & 0xF000) | (acc & 0x0FFF); StoreFull leaves             *)
(* memory[a] = acc; no other word and not the accumulator changes.         *)
(***************************************************************************)
C4_StorePreservesOpcode ==
    [][/\ Executes(5) =>
            /\ memory' = SetWord(memory, Operand,
                                 (Word(memory, Operand) \div 4096) * 4096
                                     + (accumulator % 4096))
            /\ accumulator' = accumulator
       /\ Executes(10) =>
            /\ memory' = SetWord(memory, Operand, accumulator)
            /\ accumulator' = accumulator]_vars

C4_Witness ==
    /\ last.op \in {"step", "run_step"}
    /\ instruction_register = 20484
    /\ accumulator = 65535
    /\ Word(memory, 4) = 24575

(***************************************************************************)
(* C5: Add sets the accumulator to ((acc & 0x0FFF) + (ir & 0x0FFF)) mod    *)
(* 65536, not masked to 12 bits, and the zero flag to whether the low 12   *)
(* bits of that result are zero.                                           *)
(***************************************************************************)
C5_AddWrapsAt16Bits ==
    [][Executes(11) =>
          /\ accumulator' = ((accumulator % 4096) + Operand) % WORD_MOD
          /\ flag_zero' = (accumulator' % 4096 = 0)]_vars

C5_Witness ==
    /\ last.op \in {"step", "run_step"}
    /\ instruction_register = 45057
    /\ accumulator = 4096
    /\ flag_zero

(***************************************************************************)
(* C6: the stack is a LIFO of full accumulator values with no capacity:    *)
(* Push appends the accumulator whatever the depth and the stack-size      *)
(* register; Pop takes the newest value; Pop on an empty stack yields 0,   *)
(* leaves the stack empty and dispatches no fault.                         *)
(***************************************************************************)
C6_StackIsLifo ==
    [][/\ Executes(14) =>
            /\ stack' = Append(stack, accumulator)
            /\ accumulator' = accumulator
       /\ (Executes(13) /\ stack # <<>>) =>
            /\ accumulator' = stack[Len(stack)]
            /\ stack' = SubSeq(stack, 1, Len(stack) - 1)
       /\ (Executes(13) /\ stack = <<>>) =>
            /\ accumulator' = 0
            /\ stack' = <<>>
       /\ (Executes(13) \/ Executes(14)) =>
            /\ program_counter' = program_counter + 1
            /\ memory' = memory]_vars

C6_Witness ==
    /\ last.op \in {"step", "run_step"}
    /\ instruction_register = 53248
    /\ accumulator = 65535
    /\ stack = <<>>
    /\ Word(memory, STACK_SIZE_REGISTER) = 0

AsNoOp == step([Core EXCEPT !.memory = SetWord(@, program_counter, 61440)])

(***************************************************************************)
(* C7: Jump sets the program counter to the operand with no increment;     *)
(* JumpZ with the zero flag set does the same; JumpZ with the zero flag    *)
(* clear ends where NoOp at the same place would end.  Neither changes the *)
(* zero flag, the accumulator, the stack or memory.                        *)
(***************************************************************************)
C7_Jumps ==
    [][/\ (Executes(2) \/ (Executes(3) /\ flag_zero)) =>
            program_counter' = Operand
       /\ (Executes(3) /\ ~flag_zero) =>
            /\ program_counter' = program_counter + 1
            /\ program_counter' = AsNoOp.program_counter
            /\ accumulator' = AsNoOp.accumulator
            /\ stack' = AsNoOp.stack
            /\ flag_halt' = AsNoOp.flag_halt
            /\ flag_zero' = AsNoOp.flag_zero
            /\ out' = AsNoOp.out
       /\ (Executes(2) \/ Executes(3)) =>
            /\ RegistersUnchanged
            /\ memory' = memory
            /\ out' = out]_vars

C7_Witness ==
    /\ last.op \in {"step", "run_step"}
    /\ instruction_register = 12293
    /\ program_counter = 5
    /\ flag_zero
    /\ accumulator = 4096
    /\ steps = 4
    /\ calls = 0

ScenarioAImage ==
    ImageAt(SetWord(BlankMemory, STACK_SIZE_REGISTER, STACK_SIZE_DEFAULT), 0, ScenarioA)

(***************************************************************************)
(* C8: run() clears the halt flag and steps until a Halt executes; it      *)
(* returns right after the first Halt it executes, with the halt flag set  *)
(* and the program counter one past the Halt, and executes nothing after   *)
(* it.  From program counter 0, accumulator 0 and an empty stack on the    *)
(* image [0xB005, 0xE000, 0x0000] it ends with accumulator 5, stack [5]    *)
(* and the halt flag set.                                                  *)
(***************************************************************************)
C8_RunStopsAtFirstHalt ==
    /\ [][/\ last'.op = "run" => (running' /\ ~flag_halt')
          /\ (running /\ ~panicked /\ ~flag_halt) => last'.op = "run_step"
          /\ (last'.op = "run_step" /\ ~panicked' /\ OpNibble # 0) =>
                (running' /\ ~flag_halt')
          /\ (last'.op = "run_step" /\ ~panicked' /\ OpNibble = 0) =>
                (running' /\ flag_halt' /\ program_counter' = program_counter + 1)
          /\ (running /\ ~panicked /\ flag_halt) => last'.op = "run_return"
          /\ last'.op = "run_return" =>
                /\ last.op = "run_step"
                /\ instruction_register \div 4096 = 0
                /\ program_counter = last.a + 1
                /\ ~running'
                /\ flag_halt'
                /\ program_counter' = program_counter
                /\ RegistersUnchanged
                /\ memory' = memory
                /\ out' = out]_vars
    /\ []((/\ last.op = "run_return"
           /\ run_entry = Entry(0, 0, <<>>)
           /\ memory = ScenarioAImage) =>
              (accumulator = 5 /\ stack = <<5>> /\ flag_halt))

C8_Witness ==
    /\ last.op = "run_return"
    /\ run_entry = Entry(0, 0, <<>>)
    /\ memory = ScenarioAImage
    /\ accumulator = 5
    /\ program_counter = 3

Writes == Poked \/ Executes(5) \/ Executes(10)

WrittenAddress == IF Poked THEN last'.a ELSE Operand

MergedInto(address, value) ==
    (Word(memory, address) \div 4096) * 4096 + (value % 4096)

WrittenValue ==
    CASE last'.op = "write_memory" -> last'.v
      [] last'.op = "write_memory_data" -> MergedInto(last'.a, last'.v)
      [] Executes(5) -> MergedInto(Operand, accumulator)
      [] OTHER -> accumulator

PackedCharacter(code) ==
    CASE code \in 0..25 -> <<65 + code>>
      [] code \in 26..51 -> <<97 + code - 26>>
      [] code \in 52..61 -> <<48 + code - 52>>
      [] code = 62 -> <<32>>
      [] code = 63 -> <<>>

(***************************************************************************)
(* C9: a write of v to the ASCII port 0x00A emits the one byte v & 0xFF;   *)
(* a write of v to the packed-character port 0x00B emits the character of  *)
(* code v & 0x3F and then that of code (v >> 6) & 0x3F, where 0-25 are     *)
(* 'A'-'Z', 26-51 'a'-'z', 52-61 '0'-'9', 62 the space and 63 nothing.     *)
(* v is the value poked, the merged word of Store or of a data poke, or    *)
(* the accumulator of StoreFull.                                           *)
(***************************************************************************)
C9_PortBytes ==
    [][Writes =>
          /\ WrittenAddress = 10 => out' = out \o <<WrittenValue % 256>>
          /\ WrittenAddress = 11 =>
                out' = out \o PackedCharacter(WrittenValue % 64)
                           \o PackedCharacter((WrittenValue \div 64) % 64)]_vars

C9_Witness ==
    /\ last = Call("write_memory", 11, 3968)
    /\ out = <<65, 32>>

IsPrefix(s, t) == Len(s) <= Len(t) /\ SubSeq(t, 1, Len(s)) = s

(***************************************************************************)
(* C10: the output grows only during a write (poke, Store or StoreFull) to *)
(* address 0x00A or 0x00B; nothing else emits: no write elsewhere, no      *)
(* bulk load, no fault, no construction or reinitialization, no other      *)
(* instruction.                                                            *)
(***************************************************************************)
C10_OutputOnlyFromPortWrites ==
    /\ [](last.op = "new" => out = <<>>)
    /\ [][\/ out' = out
          \/ /\ Writes
             /\ WrittenAddress \in {10, 11}
             /\ IsPrefix(out, out')]_vars

C10_Witness ==
    /\ last = Call("load_memory", 9, 5)
    /\ Word(memory, ASCII_OUT) = 65
    /\ Word(memory, SMALL_OUT) = 3968
    /\ out = <<>>

(***************************************************************************)
(* C11: no operation surfaces a host-level failure: in every reachable     *)
(* state no panic has unwound out of step(), fault() or load_memory(),     *)
(* whatever the shift amount, the program counter or the arguments.        *)
(***************************************************************************)
C11_NoHostFailure == ~panicked

AutoIncrements == OpNibble \notin {1, 2, 12} /\ ~(OpNibble = 3 /\ flag_zero)

(***************************************************************************)
(* C12: after a step that auto-increments, the program counter is          *)
(* (old program counter + 1) mod 4096, so the program counter is in        *)
(* 0..4095 in every reachable state.                                       *)
(***************************************************************************)
C12_ProgramCounterWraps ==
    /\ [](program_counter \in 0..(MEM_MAX - 1))
    /\ [][(Stepped /\ AutoIncrements) =>
             program_counter' = (program_counter + 1) % MEM_MAX]_vars

PowerOnRegisters ==
    /\ program_counter = 0
    /\ instruction_register = 0
    /\ accumulator = 0
    /\ ~flag_halt
    /\ ~flag_zero
    /\ stack = <<>>

(***************************************************************************)
(* C13: reinitialize, called in any reachable state, yields program        *)
(* counter 0, instruction register 0, accumulator 0, both flags false, an  *)
(* empty stack, memory[0x00D] = 0xFFFF and every other cell as before the  *)
(* call; a core constructed from an image has the same registers and the   *)
(* image as memory except memory[0x00D] = 0xFFFF; and a second             *)
(* reinitialize changes nothing.                                           *)
(* (A memory is held as its nonzero words, so the cells outside the        *)
(* domains of two memories are zero in both.)                              *)
(***************************************************************************)
C13_ReinitializeResets ==
    /\ [](last.op = "new" =>
            /\ PowerOnRegisters
            /\ \E img \in Images \cup {BlankMemory} :
                 /\ Word(memory, 13) = 65535
                 /\ \A a \in (DOMAIN memory \cup DOMAIN img) \ {13} :
                      Word(memory, a) = Word(img, a))
    /\ [][last'.op = "reinitialize" =>
            /\ PowerOnRegisters'
            /\ Word(memory', 13) = 65535
            /\ \A a \in (DOMAIN memory \cup DOMAIN memory') \ {13} :
                 Word(memory', a) = Word(memory, a)
            /\ out' = out
            /\ ~panicked'
            /\ reinitialize(Core') = Core']_vars

\* reinitialize after Load, And, Xor, SFull 0xD (which stored 0 over the
\* stack-size register) and Add 0 (which set the zero flag)
C13_Witness ==
    /\ last.op = "reinitialize"
    /\ steps = 5
    /\ Word(memory, 3) = 40973
    /\ Word(memory, 13) = 65535
    /\ PowerOnRegisters

\* The first n of the words placed one by one at (start + i) mod 4096.
RECURSIVE Placed(_, _, _, _)
Placed(mem, start, words, n) ==
    IF n = 0 THEN mem
    ELSE SetWord(Placed(mem, start, words, n - 1),
                 (start + n - 1) % MEM_MAX, words[n])

(***************************************************************************)
(* C14: load_memory(start, words) stores words[i] at (start + i) mod 4096  *)
(* for every index i, a later word overwriting an earlier one at the same  *)
(* address, and leaves every other cell, the registers, the flags and the  *)
(* stack unchanged, for every start in 0..65535.                           *)
(***************************************************************************)
C14_BulkLoadWraps ==
    [][last'.op = "load_memory" =>
         \E arg \in LoadArgs :
            /\ arg[1] = last'.a
            /\ ~panicked'
            /\ memory' = Placed(memory, arg[1], arg[2], Len(arg[2]))
            /\ RegistersUnchanged
            /\ program_counter' = program_counter
            /\ instruction_register' = instruction_register]_vars

\* The 16-bit results of shifting x by s places, for any s.
ShiftedLeft(x, s) == IF s >= 16 THEN 0 ELSE (x * Pow2(s)) % 65536

ShiftedRight(x, s) == IF s >= 16 THEN 0 ELSE x \div Pow2(s)

(***************************************************************************)
(* C15: a ShiftLeft or ShiftRight with s = data(ir) >> 1 leaves in the     *)
(* accumulator the 16-bit result of shifting by s its low 12 bits (bit 0   *)
(* of data(ir) set) or its full 16 bits (bit 0 clear); the zero flag, the  *)
(* stack and memory are unchanged and the program counter advances by 1.   *)
(***************************************************************************)
C15_Shifts ==
    [][(Executes(6) \/ Executes(7)) =>
         LET s == Operand \div 2
             x == IF Operand % 2 = 1 THEN accumulator % 4096 ELSE accumulator
         IN  /\ accumulator' = IF OpNibble = 6 THEN ShiftedLeft(x, s)
                                              ELSE ShiftedRight(x, s)
             /\ flag_zero' = flag_zero
             /\ stack' = stack
             /\ memory' = memory
             /\ program_counter' = program_counter + 1]_vars

(***************************************************************************)
(* C16: Xor (resp. And) sets the accumulator to (acc & 0x0FFF) xor         *)
(* (ir & 0x0FFF) (resp. and), replacing the whole register: its top 4 bits *)
(* are zero afterwards whatever they were; the zero flag is not updated,   *)
(* even when the result is 0.                                              *)
(***************************************************************************)
C16_XorAndReplaceRegister ==
    [][/\ Executes(8) =>
            accumulator' = BitXor(accumulator % 4096, Fetched % 4096)
       /\ Executes(9) =>
            accumulator' = BitAnd(accumulator % 4096, Fetched % 4096)
       /\ (Executes(8) \/ Executes(9)) =>
            /\ accumulator' <= 4095
            /\ flag_zero' = flag_zero]_vars

\* Load 0xD (0xFFFF), And 0x0F0 (0x00F0), then Xor 0x0F0: the result is 0
\* and the zero flag is still clear
C16_Witness ==
    /\ last.op \in {"step", "run_step"}
    /\ last.a = 2
    /\ steps = 3
    /\ Word(memory, 0) = 16397
    /\ Word(memory, 1) = 37104
    /\ Word(memory, 13) = 65535
    /\ instruction_register = 33008
    /\ accumulator = 0
    /\ ~flag_zero

AddExecutes == last'.op \in {"step", "run_step"} /\ OpNibble = 11

(***************************************************************************)
(* C17: the zero flag is clear in a constructed or reinitialized core and  *)
(* changes only when an Add executes, which sets it exactly when the low   *)
(* 12 bits of the sum are zero; so at every point it is true iff the most  *)
(* recent Add since the last reset produced such a sum.  No other          *)
(* instruction, fault, poke or bulk-load changes it.                       *)
(***************************************************************************)
C17_ZeroFlagOnlyByAdd ==
    /\ [](last.op \in {"new", "reinitialize"} => ~flag_zero)
    /\ [][/\ flag_zero' # flag_zero =>
                AddExecutes \/ last'.op = "reinitialize"
          /\ AddExecutes =>
                flag_zero' = (((accumulator % 4096) + Operand) % 4096 = 0)]_vars

\* after Add 0 on accumulator 0 set the flag, Xor 0x123 left a nonzero
\* accumulator and the flag still set
C17_Witness ==
    /\ last.op \in {"step", "run_step"}
    /\ last.a = 5
    /\ Word(memory, 4) = 45056
    /\ instruction_register = 33059
    /\ accumulator = 291
    /\ flag_zero

\* The calls that are neither run() nor reinitialize.
KeepsHalt ==
    last'.op \in {"step", "write_memory", "write_memory_data", "load_memory",
                  "fault", "read_memory"}

(***************************************************************************)
(* C18: step() does not consult the halt flag: with the flag set it still  *)
(* fetches and executes the instruction at the program counter, exactly as *)
(* with the flag clear; the flag, once set, stays set across step(), poke, *)
(* bulk-load and fault calls, and only run() and reinitialize clear it;    *)
(* run() keeps the program counter, so a second run() after a halt starts  *)
(* at the instruction following the Halt, not at the reset vector.         *)
(***************************************************************************)
C18_StepIgnoresHalt ==
    [][/\ (last'.op = "step" /\ flag_halt) =>
            /\ instruction_register' = Fetched
            /\ Core' = [step([Core EXCEPT !.flag_halt = FALSE])
                          EXCEPT !.flag_halt = TRUE]
       /\ (flag_halt /\ KeepsHalt) => flag_halt'
       /\ (flag_halt /\ ~flag_halt') => last'.op \in {"run", "reinitialize"}
       /\ last'.op = "run" =>
            /\ ~flag_halt'
            /\ program_counter' = program_counter
       /\ (last.op = "run" /\ last'.op = "run_step") =>
            instruction_register' = Word(memory, run_entry.program_counter)
       /\ (last.op = "run_return" /\ last'.op = "run") =>
            /\ Word(memory, program_counter - 1) \div 4096 = 0
            /\ run_entry'.program_counter = program_counter]_vars

\* Halt executed at address 1, then a step() that executed Jump 4 from
\* address 2 with the flag set, then run() entered at address 4
C18_Witness ==
    /\ last.op = "run"
    /\ run_entry.program_counter = 4
    /\ instruction_register = 8196
    /\ Word(memory, 1) = 0
    /\ Word(memory, 2) = 8196
    /\ steps = 4
    /\ ~flag_halt

\* The program counter is at the fault vector and the word there has an
\* unmapped opcode nibble.
Trapped ==
    /\ program_counter = 1
    /\ Word(memory, 1) \div 4096 \in {1, 12}

(***************************************************************************)
(* C19: when the word at the fault vector has an unmapped opcode nibble    *)
(* (0x1 or 0xC), every step taken at the fault vector faults again: the    *)
(* program counter stays 1, the interrupt-return register holds 2, the     *)
(* halt flag is not set, and a run() in progress never returns.            *)
(***************************************************************************)
C19_FaultVectorTrap ==
    [][/\ (Trapped /\ last'.op \in {"step", "run_step"}) =>
            /\ ~panicked'
            /\ Trapped'
            /\ Word(memory', 9) = 2
            /\ flag_halt' = flag_halt
       /\ (Trapped /\ running /\ ~flag_halt) =>
            /\ last'.op = "run_step"
            /\ running'
            /\ ~flag_halt']_vars

\* run() on the image with 0x1ABC at address 0 and 0xCDEF at address 1,
\* still faulting at the fault vector at the last step of the bound
C19_Witness ==
    /\ running
    /\ last.op = "run_step"
    /\ last.a = 1
    /\ Trapped
    /\ Word(memory, 1) = 52719
    /\ Word(memory, 9) = 2
    /\ ~flag_halt
    /\ steps = MaxSteps

\* The two memories agree on every cell outside the set of addresses.
SameOutside(addresses) ==
    \A a \in (DOMAIN memory \cup DOMAIN memory') \ addresses :
        Word(memory', a) = Word(memory, a)

(***************************************************************************)
(* C20: a step sets the instruction register to the word at (program      *)
(* counter mod 4096); it modifies memory only in Store and StoreFull       *)
(* (exactly the cell data(ir)) and in an unknown-opcode fault (exactly     *)
(* cells 0x008 and 0x009), and the stack only in Push and Pop; Halt, Jump, *)
(* JumpZ, Load, the shifts, Xor, And, Add and NoOp leave both unchanged.   *)
(***************************************************************************)
C20_StepFrame ==
    [][/\ last'.op \in {"step", "run_step"} =>
            instruction_register' = Word(memory, program_counter % MEM_MAX)
       /\ Stepped =>
            /\ OpNibble \in {5, 10} => SameOutside({Operand})
            /\ OpNibble \in {1, 12} => SameOutside({8, 9})
            /\ OpNibble \notin {1, 5, 10, 12} => memory' = memory
            /\ OpNibble \notin {13, 14} => stack' = stack]_vars

\* StoreFull 0xD with accumulator 0 cleared the stack-size register and
\* nothing else
C20_Witness ==
    /\ last.op \in {"step", "run_step"}
    /\ last.a = 3
    /\ steps = 4
    /\ instruction_register = 40973
    /\ accumulator = 0
    /\ Word(memory, 13) = 0
    /\ \A a \in 0..6 : Word(memory, a) = ProgLogic[a + 1]
    /\ DOMAIN memory = 0..5
    /\ stack = <<>>

====
